---------------------------- MODULE Spec2Model ----------------------------
(***************************************************************************)
(* Model of src/003_create_pdf.py: the cross-reference cache loader, the   *)
(* picture index, the similarity scorer and the image resolver             *)
(* (find_image_file) as driven by main().                                  *)
(*                                                                         *)
(* A Python str is a sequence of one-character strings.  A path            *)
(* os.path.join(image_dir, f) is the record [dir |-> image_dir, file |-> f]*)
(* The file system is POSIX: names are compared case-sensitively.          *)
(***************************************************************************)
EXTENDS Integers, Sequences, FiniteSets, TLC

\* ------------------------------------------------------------------ bounds
MaxRoster == 2
MaxRows == 2
MaxFiles == 2
MaxLen == 3

\* --------------------------------------------------------------- constants
\* best_score = 0.7 (line 95), kept as the exact fraction ThresholdNum/ThresholdDen
ThresholdNum == 7
ThresholdDen == 10

\* ----------------------------------------------------------------- strings
UpperToLower ==
  [c \in {"A", "B", "C", "E", "G", "J", "N", "P", "S", "Y"} |->
     CASE c = "A" -> "a" [] c = "B" -> "b" [] c = "C" -> "c" [] c = "E" -> "e"
       [] c = "G" -> "g" [] c = "J" -> "j" [] c = "N" -> "n" [] c = "P" -> "p"
       [] c = "S" -> "s" [] c = "Y" -> "y"]

\* str.lower() on one character
LowerChar(c) == IF c \in DOMAIN UpperToLower THEN UpperToLower[c] ELSE c

\* str.lower()
Lower(s) == [i \in 1..Len(s) |-> LowerChar(s[i])]

\* the characters str.strip() and the regex class \s treat as whitespace
Whitespace == {" ", "\t"}

\* str.strip()
RECURSIVE Strip(_)
Strip(s) ==
  IF s = <<>> THEN s
  ELSE IF Head(s) \in Whitespace THEN Strip(Tail(s))
  ELSE IF s[Len(s)] \in Whitespace THEN Strip(SubSeq(s, 1, Len(s) - 1))
  ELSE s

\* the character class [<>:"/\\|?*] of line 20
IllegalChars == {"<", ">", ":", "\"", "/", "\\", "|", "?", "*"}

IsLegal(c) == c \notin IllegalChars

sanitize_filename(name) == Strip(SelectSeq(name, IsLegal))

\* str.replace('-', ' ').replace('.', ' ') on one character
ReplaceChar(c) == IF c \in {"-", "."} THEN " " ELSE c

\* re.sub(r'\s+', ' ', s): every maximal run of whitespace becomes one space
RECURSIVE CollapseSpaces(_)
CollapseSpaces(s) ==
  IF s = <<>> THEN s
  ELSE IF Head(s) \in Whitespace
       THEN IF Len(s) > 1 /\ s[2] \in Whitespace
            THEN CollapseSpaces(Tail(s))
            ELSE <<" ">> \o CollapseSpaces(Tail(s))
       ELSE <<Head(s)>> \o CollapseSpaces(Tail(s))

normalize_name(name) ==
  Strip(CollapseSpaces([i \in 1..Len(name) |-> ReplaceChar(LowerChar(name[i]))]))

\* ------------------------------------------------- difflib.SequenceMatcher
SetMax(S) == CHOOSE x \in S : \A y \in S : y <= x
SetMin(S) == CHOOSE x \in S : \A y \in S : x <= y

\* length of the common block of a and b starting at a[i], b[j], inside
\* a[alo..ahi-1] and b[blo..bhi-1]
RECURSIVE BlockLen(_, _, _, _, _, _)
BlockLen(a, b, i, j, ahi, bhi) ==
  IF i < ahi /\ j < bhi /\ a[i] = b[j]
  THEN 1 + BlockLen(a, b, i + 1, j + 1, ahi, bhi)
  ELSE 0

\* SequenceMatcher.find_longest_match without junk: the longest block; of
\* those the one starting earliest in a; of those the one starting earliest
\* in b.  <<alo, blo, 0>> when nothing matches.
find_longest_match(a, b, alo, ahi, blo, bhi) ==
  LET size == [i \in alo..(ahi - 1), j \in blo..(bhi - 1) |->
                 BlockLen(a, b, i, j, ahi, bhi)]
      best == SetMax({size[p] : p \in DOMAIN size} \cup {0})
  IN IF best = 0 THEN <<alo, blo, 0>>
     ELSE LET besti == SetMin({i \in alo..(ahi - 1) :
                         \E j \in blo..(bhi - 1) : size[i, j] = best})
              bestj == SetMin({j \in blo..(bhi - 1) : size[besti, j] = best})
          IN <<besti, bestj, best>>

\* SequenceMatcher.get_matching_blocks, summed: the block, then the pieces to
\* its left and to its right
RECURSIVE matches(_, _, _, _, _, _)
matches(a, b, alo, ahi, blo, bhi) ==
  LET m == find_longest_match(a, b, alo, ahi, blo, bhi)
      i == m[1]
      j == m[2]
      k == m[3]
  IN IF k = 0 THEN 0
     ELSE k
          + (IF alo < i /\ blo < j THEN matches(a, b, alo, i, blo, j) ELSE 0)
          + (IF i + k < ahi /\ j + k < bhi
             THEN matches(a, b, i + k, ahi, j + k, bhi) ELSE 0)

\* SequenceMatcher.ratio(): 2.0 * matches / length, 1.0 when both are empty;
\* the fraction <<numerator, denominator>>
ratio(a, b) ==
  LET length == Len(a) + Len(b)
  IN IF length = 0 THEN <<1, 1>>
     ELSE <<2 * matches(a, b, 1, Len(a) + 1, 1, Len(b) + 1), length>>

\* mutant of similarity: only the first string is lowercased
similarityLowerFirst(str1, str2) == ratio(Lower(str1), str2)

similarity(str1, str2) == ratio(Lower(str1), Lower(str2))

\* p > q on fractions with positive denominators
Greater(p, q) == p[1] * q[2] > q[1] * p[2]


\* ------------------------------------------------------ inputs of the run
\* roster names (column Name of the people list)
NameAb   == <<"A", ":", "b">>
NameDot  == <<" ", "a", ".", "B">>
NameLong == <<"a", "a", "a", "a", "a", "a", "a", "b", "b", "b">>

\* files that may lie in image_dir
FileAbJpg == <<"A", "b", ".", "j", "p", "g">>
FileAbPng == <<"A", "b", ".", "p", "n", "g">>
FileabJPG == <<"a", "b", ".", "J", "P", "G">>
FileDash  == <<"a", "-", "b", ".", "g", "i", "f">>
FileLong  == <<"a", "a", "a", "a", "a", "a", "a", "c", "c", "c", ".", "g", "i", "f">>
FileLongUp == <<"a", "a", "a", "a", "a", "b", ".", "p", "n", "g">>
FileShort == <<"a", ".", "w", "e", "b", "p">>
FileTxt   == <<"a", "a", "a", "a", "a", "a", "a", "b", "b", "b", ".", "t", "x", "t">>

\* rows of the cross-reference CSV (columns cpj_name, gigaza_name, accepted)
Yes    == <<"y", "e", "s">>
No     == <<"n", "o">>
YesCap == <<"Y", "e", "s">>
CacheRows ==
  { [cpj_name |-> NameAb,  gigaza_name |-> <<>>,      accepted |-> No],
    [cpj_name |-> NameDot, gigaza_name |-> FileDash,  accepted |-> Yes],
    [cpj_name |-> NameDot, gigaza_name |-> <<>>,      accepted |-> Yes],
    [cpj_name |-> NameAb,  gigaza_name |-> FileabJPG, accepted |-> YesCap] }

\* an accepted row whose gigaza_name is a file that is no picture
CacheRowTxt == [cpj_name |-> NameLong, gigaza_name |-> FileTxt, accepted |-> Yes]

\* The runs checked: short names with every kind of cache row, and a
\* ten-letter name whose candidates score 0.70, 0.75 and 2/11, beside a file
\* that is no picture and that a cache row may name.
Worlds ==
  { [names |-> {NameAb, NameDot},
     files |-> {FileAbJpg, FileAbPng, FileabJPG, FileDash},
     rows  |-> CacheRows],
    [names |-> {NameLong},
     files |-> {FileLong, FileLongUp, FileShort, FileTxt},
     rows  |-> {CacheRowTxt}] }
RosterNames == UNION {w.names : w \in Worlds}
FileNames == UNION {w.files : w \in Worlds}

\* lines typed at the confirmation prompt
Responses ==
  { <<"y">>, <<" ", "Y", "E", "S", " ">>, <<>>, <<"n">>, <<"y", "e">> }

\* all sequences over S of length at most n
SeqsUpTo(S, n) == UNION {[1..k -> S] : k \in 0..n}

IsInjective(s) == \A i, j \in 1..Len(s) : s[i] = s[j] => i = j

\* what os.listdir(image_dir) can return: the files in any order
Listings(files) == {l \in SeqsUpTo(files, MaxFiles) : IsInjective(l)}

\* --------------------------------------------------------------- state
VARIABLES
  cacheFileExists,  \* os.path.exists(crossref_file)
  cacheFile,        \* the rows of the persisted cross-reference CSV
  dirExists,        \* os.path.exists(image_dir)
  listing,          \* os.listdir(image_dir), in the order it is returned
  journalists,      \* the roster: the Name column, in file order
  pc,               \* where main() is: "load", "pictures", "loop", "input", "done"
  crossref_cache,   \* dict: sequence of <<key, value>> in insertion order
  available_pictures, \* dict: sequence of <<base_name, path>> in insertion order
  idx,              \* number of records whose page is finished
  pending,          \* best_match and best_score while input() blocks
  pages,            \* per finished record: the value find_image_file returned
  response,         \* the line input() returned to the current call
  stdout,           \* the "Fuzzy match score" lines printed so far
  scored,           \* records for which similarity() was called
  stats,            \* the statistics dict of main()
  sim               \* operands and results of a stand-alone similarity() call

vars == <<cacheFileExists, cacheFile, dirExists, listing, journalists, pc,
          crossref_cache, available_pictures, idx, pending, pages, response,
          stdout, scored, stats, sim>>

\* ------------------------------------------------------------ file system
image_dir == "profile_pictures"

\* os.path.join(image_dir, filename)
Join(dir, filename) == [dir |-> dir, file |-> filename]

\* os.path.exists(path) for a path below image_dir: the empty file name
\* gives "profile_pictures/", the directory itself
Exists(path) ==
  /\ dirExists
  /\ \/ path.file = <<>>
     \/ \E i \in 1..Len(listing) : listing[i] = path.file

\* ------------------------------------------------------------------ dicts
\* Python's None and a str value, kept apart
None == [some |-> FALSE, val |-> <<>>]
Some(v) == [some |-> TRUE, val |-> v]

Keys(d) == {d[i][1] : i \in 1..Len(d)}

\* d[k], for k in d
Get(d, k) == d[CHOOSE i \in 1..Len(d) : d[i][1] = k][2]

\* d[k] = v: a present key keeps its place, a new key goes last
Put(d, k, v) ==
  IF k \in Keys(d)
  THEN [i \in 1..Len(d) |-> IF d[i][1] = k THEN <<k, v>> ELSE d[i]]
  ELSE Append(d, <<k, v>>)

\* ---------------------------------------------- load_crossreference_cache
\* mutant of LoadRow: the accepted column is compared case-insensitively
LoadRowAnyCase(cache, row) ==
  IF Lower(row.accepted) = Yes
  THEN Put(cache, row.cpj_name, Some(row.gigaza_name))
  ELSE IF Lower(row.accepted) = No THEN Put(cache, row.cpj_name, None)
  ELSE cache

\* one pass of the loop body (lines 46-49)
LoadRow(cache, row) ==
  IF row.accepted = Yes THEN Put(cache, row.cpj_name, Some(row.gigaza_name))
  ELSE IF row.accepted = No THEN Put(cache, row.cpj_name, None)
  ELSE cache

RECURSIVE LoadRows(_, _)
LoadRows(cache, rows) ==
  IF rows = <<>> THEN cache
  ELSE LoadRows(LoadRow(cache, Head(rows)), Tail(rows))

load_crossreference_cache(exists, rows) ==
  IF ~exists THEN <<>> ELSE LoadRows(<<>>, rows)

\* ------------------------------------------------- get_available_pictures
EndsWith(s, suffix) ==
  /\ Len(s) >= Len(suffix)
  /\ SubSeq(s, Len(s) - Len(suffix) + 1, Len(s)) = suffix

\* the extension list of lines 61 and 76, in that order
Extensions ==
  << <<".", "j", "p", "g">>, <<".", "j", "p", "e", "g">>, <<".", "p", "n", "g">>,
     <<".", "g", "i", "f">>, <<".", "w", "e", "b", "p">> >>

\* filename.lower().endswith(('.jpg', '.jpeg', '.png', '.gif', '.webp'))
HasImageExtension(filename) ==
  \E e \in 1..Len(Extensions) : EndsWith(Lower(filename), Extensions[e])

\* re.sub(r'\.(jpg|jpeg|png|gif|webp)$', '', filename, flags=re.IGNORECASE)
StripExtension(filename) ==
  IF HasImageExtension(filename)
  THEN LET e == CHOOSE e \in 1..Len(Extensions) :
                   EndsWith(Lower(filename), Extensions[e])
       IN SubSeq(filename, 1, Len(filename) - Len(Extensions[e]))
  ELSE filename

RECURSIVE IndexPictures(_, _)
IndexPictures(pictures, filenames) ==
  IF filenames = <<>> THEN pictures
  ELSE LET filename == Head(filenames)
       IN IndexPictures(
            IF HasImageExtension(filename)
            THEN Put(pictures, StripExtension(filename), Join(image_dir, filename))
            ELSE pictures,
            Tail(filenames))

get_available_pictures(exists, filenames) ==
  IF ~exists THEN <<>> ELSE IndexPictures(<<>>, filenames)

\* --------------------------------------------------------- find_image_file
\* a returned filepath: None, or a path
NonePath == [some |-> FALSE, val |-> Join("", <<>>)]
SomePath(p) == [some |-> TRUE, val |-> p]

\* mutant of ExactMatch: the last extension whose file exists
ExactMatchLast(safe_name) ==
  LET hits == {e \in 1..Len(Extensions) :
                 Exists(Join(image_dir, safe_name \o Extensions[e]))}
  IN IF hits = {} THEN 0 ELSE SetMax(hits)

\* lines 76-79: the first extension, in list order, whose file exists; 0 if none
ExactMatch(safe_name) ==
  LET hits == {e \in 1..Len(Extensions) :
                 Exists(Join(image_dir, safe_name \o Extensions[e]))}
  IN IF hits = {} THEN 0 ELSE SetMin(hits)

\* mutant of Better: score >= best_score
BetterOrEqual(score, best_score) == ~Greater(best_score, score)

\* the comparison of line 101
Better(score, best_score) == Greater(score, best_score)

\* mutant of BestMatch: the loop stops at the first candidate it keeps
RECURSIVE BestMatchFirstAbove(_, _, _)
BestMatchFirstAbove(normalized_name, pictures, best) ==
  IF pictures = <<>> \/ best.match.some THEN best
  ELSE LET pic_name == Head(pictures)[1]
           pic_path == Head(pictures)[2]
           score == similarity(normalized_name, normalize_name(pic_name))
       IN BestMatchFirstAbove(normalized_name, Tail(pictures),
                    IF Greater(score, best.score)
                    THEN [match |-> SomePath(pic_path), score |-> score]
                    ELSE best)

\* lines 97-103: the loop over available_pictures.items(), from the state
\* best = [match, score]
RECURSIVE BestMatch(_, _, _)
BestMatch(normalized_name, pictures, best) ==
  IF pictures = <<>> THEN best
  ELSE LET pic_name == Head(pictures)[1]
           pic_path == Head(pictures)[2]
           score == similarity(normalized_name, normalize_name(pic_name))
       IN BestMatch(normalized_name, Tail(pictures),
                    IF Better(score, best.score)
                    THEN [match |-> SomePath(pic_path), score |-> score]
                    ELSE best)

\* lines 93-103
FuzzyBest(name, pictures) ==
  BestMatch(normalize_name(name), pictures,
            [match |-> NonePath, score |-> <<ThresholdNum, ThresholdDen>>])

Return(line, path, source) ==
  [at |-> "return", line |-> line, path |-> path, source |-> source,
   scored |-> FALSE, best |-> [match |-> NonePath, score |-> <<0, 1>>]]

\* lines 91-116, up to the call of input() or to the return of line 116
FuzzyStage(name, pictures) ==
  IF pictures # <<>>
  THEN LET best == FuzzyBest(name, pictures)
       IN IF best.match.some
          THEN [at |-> "input", line |-> 109, path |-> NonePath, source |-> "None",
                scored |-> TRUE, best |-> best]
          ELSE [Return(116, NonePath, "None") EXCEPT !.scored = TRUE]
  ELSE Return(116, NonePath, "None")

\* mutant of CacheStage: a rejected name is treated as a name without entry
CacheStageAsk(name, cache) ==
  IF cache # <<>> /\ name \in Keys(cache) /\ Get(cache, name).some
     /\ Exists(Join(image_dir, Get(cache, name).val))
  THEN Return(89, SomePath(Join(image_dir, Get(cache, name).val)), "gigaza")
  ELSE Return(0, NonePath, "None")

\* lines 81-89: the value returned at the cache stage, or line 0 when the
\* stage does not return
CacheStage(name, cache) ==
  IF cache # <<>> /\ name \in Keys(cache)
  THEN LET cached_filename == Get(cache, name)
       IN IF ~cached_filename.some
          THEN Return(86, NonePath, "None")
          ELSE LET filepath == Join(image_dir, cached_filename.val)
               IN IF Exists(filepath)
                  THEN Return(89, SomePath(filepath), "gigaza")
                  ELSE Return(0, NonePath, "None")
  ELSE Return(0, NonePath, "None")

\* find_image_file from its call to its first return or to input()
FindImageFile(name, pictures, cache) ==
  LET safe_name == sanitize_filename(name)
      e == ExactMatch(safe_name)
      c == CacheStage(name, cache)
  IN IF e # 0
     THEN Return(79, SomePath(Join(image_dir, safe_name \o Extensions[e])), "cpj")
     ELSE IF c.line # 0 THEN c
     ELSE FuzzyStage(name, pictures)

\* mutant of Affirmative: any answer that starts with 'y'
AffirmativePrefix(answer) ==
  Lower(Strip(answer)) # <<>> /\ Head(Lower(Strip(answer))) = "y"

\* line 109-110: input(...).strip().lower() is 'y' or 'yes'
Affirmative(answer) == Lower(Strip(answer)) \in {<<"y">>, Yes}

\* ------------------------------------------------------------------- main
NoPending == [match |-> NonePath, score |-> <<0, 1>>]

\* find_image_file has not called input()
NoResponse == [read |-> FALSE, line |-> <<>>]

NoSim == [a |-> <<>>, b |-> <<>>, ab |-> <<0, 1>>, ba |-> <<0, 1>>, done |-> FALSE]

Init ==
  /\ \E w \in Worlds :
       /\ cacheFileExists \in BOOLEAN
       /\ cacheFile \in SeqsUpTo(w.rows, MaxRows)
       /\ (~cacheFileExists => cacheFile = <<>>)
       /\ dirExists \in BOOLEAN
       /\ listing \in Listings(w.files)
       /\ (~dirExists => listing = <<>>)
       /\ journalists \in SeqsUpTo(w.names, MaxRoster)
  /\ pc = "load"
  /\ crossref_cache = <<>>
  /\ available_pictures = <<>>
  /\ idx = 0
  /\ pending = NoPending
  /\ pages = <<>>
  /\ response = NoResponse
  /\ stdout = <<>>
  /\ scored = {}
  /\ stats = [total |-> 0, with_image |-> 0, cpj_images |-> 0,
              gigaza_images |-> 0, no_image |-> 0]
  /\ sim = NoSim

\* lines 232-235
LoadCache ==
  /\ pc = "load"
  /\ crossref_cache' = load_crossreference_cache(cacheFileExists, cacheFile)
  /\ pc' = "pictures"
  /\ UNCHANGED <<cacheFileExists, cacheFile, dirExists, listing, journalists,
                 available_pictures, idx, pending, pages, response, stdout,
                 scored, stats, sim>>

\* lines 237-263: the picture index, the roster, the canvas, the statistics
GetPictures ==
  /\ pc = "pictures"
  /\ available_pictures' = get_available_pictures(dirExists, listing)
  /\ pc' = IF journalists = <<>> THEN "done" ELSE "loop"
  /\ UNCHANGED <<cacheFileExists, cacheFile, dirExists, listing, journalists,
                 crossref_cache, idx, pending, pages, response, stdout, scored,
                 stats, sim>>

\* mutant of TrackStatistics: the else of line 283 is lost and no_image is
\* counted for every record
TrackStatisticsNoElse(st, image_path, source) ==
  LET t == [st EXCEPT !.total = @ + 1, !.no_image = @ + 1]
  IN IF image_path.some
     THEN LET w == [t EXCEPT !.with_image = @ + 1]
          IN IF source = "cpj" THEN [w EXCEPT !.cpj_images = @ + 1]
             ELSE IF source = "gigaza" THEN [w EXCEPT !.gigaza_images = @ + 1]
             ELSE w
     ELSE t

\* lines 276-284
TrackStatistics(st, image_path, source) ==
  LET t == [st EXCEPT !.total = @ + 1]
  IN IF image_path.some
     THEN LET w == [t EXCEPT !.with_image = @ + 1]
          IN IF source = "cpj" THEN [w EXCEPT !.cpj_images = @ + 1]
             ELSE IF source = "gigaza" THEN [w EXCEPT !.gigaza_images = @ + 1]
             ELSE w
     ELSE [t EXCEPT !.no_image = @ + 1]

\* lines 272-288 after find_image_file has returned (image_path, source) at
\* `line`: the page, the statistics, the next record
FinishRecord(line, image_path, source) ==
  /\ pages' = Append(pages, [name |-> journalists[idx + 1], line |-> line,
                             image_path |-> image_path, source |-> source])
  /\ stats' = TrackStatistics(stats, image_path, source)
  /\ idx' = idx + 1
  /\ pending' = NoPending
  /\ pc' = IF idx + 1 < Len(journalists) THEN "loop" ELSE "done"

\* lines 265-272: the next record, find_image_file up to its return or to
\* the prompt of line 109
FindImage ==
  /\ pc = "loop"
  /\ response' = NoResponse
  /\ LET name == journalists[idx + 1]
         r == FindImageFile(name, available_pictures, crossref_cache)
     IN /\ scored' = IF r.scored THEN scored \cup {idx + 1} ELSE scored
        /\ IF r.at = "input"
           THEN /\ pending' = r.best
                /\ stdout' = Append(stdout, [record |-> idx + 1, name |-> name,
                                             score |-> r.best.score,
                                             basename |-> r.best.match.val.file])
                /\ pc' = "input"
                /\ UNCHANGED <<pages, stats, idx>>
           ELSE /\ FinishRecord(r.line, r.path, r.source)
                /\ UNCHANGED stdout
  /\ UNCHANGED <<cacheFileExists, cacheFile, dirExists, listing, journalists,
                 crossref_cache, available_pictures, sim>>

\* mutant of AnswerPrompt: the decision is written back to the cache and to
\* the cross-reference file
AnswerPromptWriteBack ==
  /\ pc = "input"
  /\ \E line \in Responses :
       LET name == journalists[idx + 1]
           row == [cpj_name |-> name, gigaza_name |-> pending.match.val.file,
                   accepted |-> IF Affirmative(line) THEN Yes ELSE No]
       IN /\ response' = [read |-> TRUE, line |-> line]
          /\ crossref_cache' = LoadRow(crossref_cache, row)
          /\ cacheFile' = Append(cacheFile, row)
          /\ IF Affirmative(line)
             THEN FinishRecord(111, pending.match, "gigaza")
             ELSE FinishRecord(114, NonePath, "None")
  /\ UNCHANGED <<cacheFileExists, dirExists, listing, journalists,
                 available_pictures, stdout, scored, sim>>

\* mutant of AnswerPrompt: a declined candidate sends the record through
\* find_image_file again
AnswerPromptRetry ==
  /\ pc = "input"
  /\ \E line \in Responses :
       /\ response' = [read |-> TRUE, line |-> line]
       /\ IF Affirmative(line)
          THEN FinishRecord(111, pending.match, "gigaza")
          ELSE /\ pc' = "loop"
               /\ pending' = NoPending
               /\ UNCHANGED <<pages, stats, idx>>
  /\ UNCHANGED <<cacheFileExists, cacheFile, dirExists, listing, journalists,
                 crossref_cache, available_pictures, stdout, scored, sim>>

\* lines 109-114: input() returns `response`
AnswerPrompt ==
  /\ pc = "input"
  /\ \E line \in Responses :
       /\ response' = [read |-> TRUE, line |-> line]
       /\ IF Affirmative(line)
          THEN FinishRecord(111, pending.match, "gigaza")
          ELSE FinishRecord(114, NonePath, "None")
  /\ UNCHANGED <<cacheFileExists, cacheFile, dirExists, listing, journalists,
                 crossref_cache, available_pictures, stdout, scored, sim>>

Next == LoadCache \/ GetPictures \/ FindImage \/ AnswerPrompt

Spec == Init /\ [][Next]_vars

\* A step of main(): every step of Next moves pc or idx, and one is possible
\* exactly while pc # "done".  Advance says so without the resolver, whose
\* evaluation under ENABLED is not feasible.
Advance ==
  /\ pc # "done"
  /\ \E p \in {"pictures", "loop", "input", "done"} :
       \E n \in {idx, idx + 1} :
         /\ pc' = p
         /\ idx' = n
         /\ (p # pc \/ n # idx)

\* main() keeps running: input() returns once a line is typed, and nothing
\* else in main() waits
FairSpec == Spec /\ WF_<<pc, idx>>(Advance)

\* ------------------------------------------- similarity() on its own
Alphabet == {"A", "a", "b", "c"}

InitSim ==
  /\ cacheFileExists = FALSE
  /\ cacheFile = <<>>
  /\ dirExists = FALSE
  /\ listing = <<>>
  /\ journalists = <<>>
  /\ pc = "similarity"
  /\ crossref_cache = <<>>
  /\ available_pictures = <<>>
  /\ idx = 0
  /\ pending = NoPending
  /\ pages = <<>>
  /\ response = NoResponse
  /\ stdout = <<>>
  /\ scored = {}
  /\ stats = [total |-> 0, with_image |-> 0, cpj_images |-> 0,
              gigaza_images |-> 0, no_image |-> 0]
  /\ \E a, b \in SeqsUpTo(Alphabet, MaxLen) : sim = [NoSim EXCEPT !.a = a, !.b = b]

\* similarity(a, b) and similarity(b, a)
Similarity ==
  /\ pc = "similarity"
  /\ ~sim.done
  /\ sim' = [sim EXCEPT !.ab = similarity(sim.a, sim.b),
                        !.ba = similarity(sim.b, sim.a),
                        !.done = TRUE]
  /\ UNCHANGED <<cacheFileExists, cacheFile, dirExists, listing, journalists,
                 pc, crossref_cache, available_pictures, idx, pending, pages,
                 response, stdout, scored, stats>>

NextSim == Similarity

SpecSim == InitSim /\ [][NextSim]_vars

\* ================================================================ claims
\* the directory image_dir holds a file of this name
InDir(filename) == dirExists /\ \E k \in 1..Len(listing) : listing[k] = filename

\* the extensions e for which image_dir holds {sanitize(name)}{e}
ExactExtensions(name) ==
  {e \in 1..Len(Extensions) : InDir(sanitize_filename(name) \o Extensions[e])}

\* a "Fuzzy match score" line was printed for record i
Prompted(i) == \E k \in 1..Len(stdout) : stdout[k].record = i

\* the line printed for record i
PromptOf(i) == stdout[CHOOSE k \in 1..Len(stdout) : stdout[k].record = i]

\* the cache maps name to the rejection sentinel / to a gigaza_name
CachedRejected(name) ==
  name \in Keys(crossref_cache) /\ ~Get(crossref_cache, name).some
CachedConcrete(name) ==
  name \in Keys(crossref_cache) /\ Get(crossref_cache, name).some

\* the score of pool entry k for a roster name
ScoreOf(name, k) ==
  similarity(normalize_name(name), normalize_name(available_pictures[k][1]))

AboveThreshold(score) == score[1] * ThresholdDen > ThresholdNum * score[2]

ReturnedNone(page) == page.image_path = NonePath /\ page.source = "None"

\* C1: a record whose sanitized name has a file {sanitize(name)}{ext} in the
\* directory gets that file with the earliest such ext of the list, tagged
\* 'cpj', whatever the cache and the pool hold, without scoring or prompting.
C1_ExactMatchWins ==
  \A i \in 1..Len(pages) :
    LET name == pages[i].name
        exts == ExactExtensions(name)
    IN exts # {} =>
         /\ pages[i].image_path =
              SomePath(Join(image_dir,
                            sanitize_filename(name) \o Extensions[SetMin(exts)]))
         /\ pages[i].source = "cpj"
         /\ i \notin scored
         /\ ~Prompted(i)

\* two exact files, a cache entry for the name, a non-empty pool
C1_Witness ==
  \E i \in 1..Len(pages) :
    /\ Cardinality(ExactExtensions(pages[i].name)) >= 2
    /\ pages[i].name \in Keys(crossref_cache)
    /\ sanitize_filename(pages[i].name) # pages[i].name
    /\ available_pictures # <<>>
    /\ pages[i].line = 79

\* C2 as stated: a name the cache rejects resolves to (None, None), without
\* scoring or prompting.
C2_RejectedAlwaysNone ==
  \A i \in 1..Len(pages) :
    CachedRejected(pages[i].name) =>
      /\ ReturnedNone(pages[i])
      /\ i \notin scored
      /\ ~Prompted(i)

\* C2 amended: a name the cache rejects is never scored or prompted for, and
\* resolves to (None, None) when the directory holds no file
\* {sanitize(name)}{ext}.
C2_RejectedUnlessExact ==
  \A i \in 1..Len(pages) :
    CachedRejected(pages[i].name) =>
      /\ i \notin scored
      /\ ~Prompted(i)
      /\ (ExactExtensions(pages[i].name) = {} =>
            ReturnedNone(pages[i]) /\ pages[i].line = 86)

\* a rejected name, no exact file, and a pool entry that would be offered
C2_Witness ==
  \E i \in 1..Len(pages) :
    /\ CachedRejected(pages[i].name)
    /\ ExactExtensions(pages[i].name) = {}
    /\ \E k \in 1..Len(available_pictures) :
         AboveThreshold(ScoreOf(pages[i].name, k))
    /\ pages[i].line = 86

\* what the fuzzy stage does for a name that has no cache entry
Uncached(name) == FindImageFile(name, available_pictures, <<>>)

\* C3 as stated: no exact file and a cached gigaza_name g.  If the directory
\* holds a file named g the record gets it tagged 'gigaza' without scoring or
\* prompting; if not, the cache stage does not return and the record goes
\* through the fuzzy stage as a name without cache entry does.
C3_CachedFile ==
  \A i \in 1..Len(pages) :
    LET name == pages[i].name
        g == Get(crossref_cache, name).val
    IN (ExactExtensions(name) = {} /\ CachedConcrete(name)) =>
         IF InDir(g)
         THEN /\ pages[i].image_path = SomePath(Join(image_dir, g))
              /\ pages[i].source = "gigaza"
              /\ pages[i].line = 89
              /\ i \notin scored
              /\ ~Prompted(i)
         ELSE /\ pages[i].line \in {111, 114, 116}
              /\ Prompted(i) <=> Uncached(name).at = "input"
              /\ Prompted(i) =>
                   /\ PromptOf(i).basename = Uncached(name).best.match.val.file
                   /\ PromptOf(i).score = Uncached(name).best.score
              /\ (i \in scored) <=> Uncached(name).scored

\* C3 for the names g that can name a file (g is not empty): holds
C3_CachedFileNamed ==
  \A i \in 1..Len(pages) :
    LET name == pages[i].name
        g == Get(crossref_cache, name).val
    IN (ExactExtensions(name) = {} /\ CachedConcrete(name) /\ g # <<>>) =>
         IF InDir(g)
         THEN /\ pages[i].image_path = SomePath(Join(image_dir, g))
              /\ pages[i].source = "gigaza"
              /\ pages[i].line = 89
              /\ i \notin scored
              /\ ~Prompted(i)
         ELSE /\ pages[i].line \in {111, 114, 116}
              /\ Prompted(i) <=> Uncached(name).at = "input"
              /\ Prompted(i) =>
                   /\ PromptOf(i).basename = Uncached(name).best.match.val.file
                   /\ PromptOf(i).score = Uncached(name).best.score
              /\ (i \in scored) <=> Uncached(name).scored

\* the record went through the fuzzy stage (it returned at line 111, 114 or 116)
ReachedFuzzy(page) == page.line \in {111, 114, 116}

\* some pool entry scores strictly above 0.70 for the name
SomeAbove(name) ==
  \E k \in 1..Len(available_pictures) : AboveThreshold(ScoreOf(name, k))

OnePromptPerRecord ==
  \A k1, k2 \in 1..Len(stdout) : stdout[k1].record = stdout[k2].record => k1 = k2

DecidingRows(name) ==
  {k \in 1..Len(cacheFile) :
     cacheFile[k].cpj_name = name /\ cacheFile[k].accepted \in {Yes, No}}

\* C6: after loading, a name is a key of the cache exactly when a row for
\* it has accepted "yes" or "no"; its value is the gigaza_name of the last
\* such row if that row says "yes", the rejection sentinel if it says "no";
\* rows with another accepted value change nothing; a missing file gives {}.
C6_LoadByAccepted ==
  pc # "load" =>
    IF ~cacheFileExists THEN crossref_cache = <<>>
    ELSE /\ Keys(crossref_cache) = {n \in RosterNames : DecidingRows(n) # {}}
         /\ \A n \in Keys(crossref_cache) :
              LET row == cacheFile[SetMax(DecidingRows(n))]
              IN Get(crossref_cache, n) =
                   IF row.accepted = Yes THEN Some(row.gigaza_name) ELSE None

\* a "no" row followed by a "Yes" row for the same name: still rejected
C6_Witness ==
  /\ pc # "load"
  /\ Len(cacheFile) = 2
  /\ cacheFile[1].accepted = No
  /\ cacheFile[2].accepted = YesCap
  /\ cacheFile[1].cpj_name = cacheFile[2].cpj_name
  /\ CachedRejected(cacheFile[1].cpj_name)

\* the starts <<i, j>> of the longest common blocks of a[alo..ahi-1] and
\* b[blo..bhi-1]
LongestBlocks(a, b, alo, ahi, blo, bhi) ==
  LET k == find_longest_match(a, b, alo, ahi, blo, bhi)[3]
  IN {p \in (alo..(ahi - 1)) \X (blo..(bhi - 1)) :
        k > 0 /\ BlockLen(a, b, p[1], p[2], ahi, bhi) = k}

\* at every step of the block matching the longest common block is unique
RECURSIVE NoTies(_, _, _, _, _, _)
NoTies(a, b, alo, ahi, blo, bhi) ==
  LET m == find_longest_match(a, b, alo, ahi, blo, bhi)
      i == m[1]
      j == m[2]
      k == m[3]
  IN k = 0 \/
     /\ Cardinality(LongestBlocks(a, b, alo, ahi, blo, bhi)) = 1
     /\ (alo < i /\ blo < j) => NoTies(a, b, alo, i, blo, j)
     /\ (i + k < ahi /\ j + k < bhi) => NoTies(a, b, i + k, ahi, j + k, bhi)

Unambiguous(a, b) ==
  NoTies(Lower(a), Lower(b), 1, Len(a) + 1, 1, Len(b) + 1)

LoadedUnchanged ==
  pc \in {"loop", "input"} =>
    /\ crossref_cache' = crossref_cache
    /\ available_pictures' = available_pictures
    /\ cacheFile' = cacheFile
    /\ cacheFileExists' = cacheFileExists
    /\ listing' = listing

\* C8: while the records are resolved the cache, the picture index, the
\* cross-reference file and the directory stay as they were loaded, and two
\* records of the same name are offered the same candidate (or none) and,
\* unless prompted, get the same result.
C8_Frame ==
  /\ [][LoadedUnchanged]_vars
  /\ [](pc \in {"loop", "input", "done"} =>
          /\ crossref_cache = load_crossreference_cache(cacheFileExists, cacheFile)
          /\ available_pictures = get_available_pictures(dirExists, listing))
  /\ [](\A i, j \in 1..Len(pages) :
          pages[i].name = pages[j].name =>
            /\ Prompted(i) <=> Prompted(j)
            /\ IF Prompted(i)
               THEN /\ PromptOf(i).basename = PromptOf(j).basename
                    /\ PromptOf(i).score = PromptOf(j).score
                    /\ \A r \in {i, j} :
                         \/ pages[r].line = 114 /\ ReturnedNone(pages[r])
                         \/ /\ pages[r].line = 111
                            /\ pages[r].source = "gigaza"
                            /\ pages[r].image_path =
                                 SomePath(Join(image_dir, PromptOf(i).basename))
               ELSE pages[i] = pages[j])

\* the same name twice: accepted once, declined once
C8_Witness ==
  /\ pc = "done"
  /\ Len(pages) = 2
  /\ pages[1].name = pages[2].name
  /\ pages[1].line = 114
  /\ pages[2].line = 111

\* pool entry j scores at least as much as every other one
IsMaximal(name, j) ==
  \A j2 \in 1..Len(available_pictures) :
    ~Greater(ScoreOf(name, j2), ScoreOf(name, j))

\* C9: the candidate offered is the first entry of the pool, in its
\* iteration order, among those of maximal score.
C9_FirstOfTheBest ==
  \A k \in 1..Len(stdout) :
    LET name == stdout[k].name
        first == SetMin({j \in 1..Len(available_pictures) : IsMaximal(name, j)})
    IN /\ stdout[k].basename = available_pictures[first][2].file
       /\ stdout[k].score = ScoreOf(name, first)

\* two entries tie for the best score; the first was offered
C9_Witness ==
  \E k \in 1..Len(stdout) :
    /\ Len(available_pictures) = 2
    /\ IsMaximal(stdout[k].name, 1)
    /\ IsMaximal(stdout[k].name, 2)
    /\ stdout[k].basename = available_pictures[1][2].file
    /\ stdout[k].basename # available_pictures[2][2].file

\* each finished record has one outcome: ResolvedPrimary (line 79),
\* ResolvedSecondary (89, 111), Rejected (86) or NoMatch (114, 116)
OneOutcome(page) ==
  /\ page.line \in {79, 86, 89, 111, 114, 116}
  /\ page.line = 79 <=> (page.source = "cpj" /\ page.image_path.some)
  /\ page.line \in {89, 111} <=> (page.source = "gigaza" /\ page.image_path.some)
  /\ page.line \in {86, 114, 116} <=> ReturnedNone(page)

\* a step finishes at most the current record and changes no finished one;
\* while a prompt is pending the step is its answer
OneRecordAtATime ==
  /\ Len(pages') \in {Len(pages), Len(pages) + 1}
  /\ SubSeq(pages', 1, Len(pages)) = pages
  /\ pc = "input" =>
       /\ Len(pages') = Len(pages) + 1
       /\ stdout' = stdout
       /\ scored' = scored
  /\ pc = "done" => pc' = "done"

\* C10: the records are finished one at a time in roster order, each with
\* one outcome that never changes; while a prompt is pending only its answer
\* happens; the run ends, with every record finished.
C10_EveryRecordFinishes ==
  /\ [](/\ Len(pages) = idx
        /\ idx <= Len(journalists)
        /\ \A i \in 1..Len(pages) :
             pages[i].name = journalists[i] /\ OneOutcome(pages[i])
        /\ pc = "done" => idx = Len(journalists))
  /\ [][OneRecordAtATime]_vars
  /\ <>(pc = "done")

\* a run of two records, one of them decided at the prompt
C10_Witness ==
  /\ pc = "done"
  /\ Len(pages) = MaxRoster
  /\ stdout # <<>>
  /\ pages[1].line # pages[2].line

\* the pages so far whose find_image_file result carries this source tag
PagesFrom(source) == {i \in 1..Len(pages) : pages[i].source = source}

\* the three counters of which every record moves one
Outcomes == {"cpj_images", "gigaza_images", "no_image"}

\* the counter the result of page i belongs to
OutcomeOf(page) ==
  IF ~page.image_path.some THEN "no_image"
  ELSE IF page.source = "cpj" THEN "cpj_images"
  ELSE "gigaza_images"

\* a step leaves the statistics alone or finishes one record, and then adds
\* one to total and to exactly one of the three counters, the one of the
\* record's result; with_image follows the two image counters
OneCounterPerRecord ==
  IF Len(pages') = Len(pages)
  THEN stats' = stats
  ELSE /\ stats'.total = stats.total + 1
       /\ \E o \in Outcomes :
            /\ o = OutcomeOf(pages'[Len(pages')])
            /\ stats'[o] = stats[o] + 1
            /\ \A q \in Outcomes \ {o} : stats'[q] = stats[q]
       /\ stats'.with_image =
            stats.with_image + (IF pages'[Len(pages')].image_path.some
                                THEN 1 ELSE 0)

\* C11: after every processed record total = with_image + no_image,
\* with_image = cpj_images + gigaza_images, total is the number of records
\* processed so far and the roster length once the run is done; the counters
\* count the pages of each outcome, and each record adds one to exactly one
\* of cpj_images, gigaza_images, no_image.
C11_StatsConsistent ==
  /\ [](/\ stats.total = stats.with_image + stats.no_image
        /\ stats.with_image = stats.cpj_images + stats.gigaza_images
        /\ stats.total = Len(pages)
        /\ stats.total = idx
        /\ stats.cpj_images = Cardinality(PagesFrom("cpj"))
        /\ stats.gigaza_images = Cardinality(PagesFrom("gigaza"))
        /\ stats.no_image = Cardinality(PagesFrom("None"))
        /\ pc = "done" => stats.total = Len(journalists))
  /\ [][OneCounterPerRecord]_vars

\* a finished run of MaxRoster records with two different outcomes, one of
\* them a picture accepted at the prompt
C11_Witness ==
  /\ pc = "done"
  /\ stats.total = MaxRoster
  /\ stats.total = Len(journalists)
  /\ stats.gigaza_images >= 1
  /\ stats.cpj_images + stats.no_image >= 1
  /\ \E i \in 1..Len(pages) : pages[i].line = 111

\* the path names a file directly inside image_dir whose extension is one of
\* the recognized ones
IsImageOfDir(path) ==
  /\ path.dir = image_dir
  /\ InDir(path.file)
  /\ HasImageExtension(path.file)

\* the cache stage returned the cached name of a record at line 89
FromCache(page) == page.line = 89

\* C12 as stated: every path find_image_file returns, tagged 'cpj' or
\* 'gigaza', names an image file of the image directory, whatever the cache
\* holds.
C12_ReturnedPathIsImage ==
  \A i \in 1..Len(pages) :
    pages[i].image_path.some =>
      /\ pages[i].source \in {"cpj", "gigaza"}
      /\ IsImageOfDir(pages[i].image_path.val)

\* what does hold: a path returned by the exact stage or accepted at the
\* prompt is an image file of the directory, and so is a cached name unless
\* it is empty or lacks a recognized extension; the cache stage returns
\* whatever the row names as long as os.path.exists accepts it.
C12_ImageUnlessCached ==
  \A i \in 1..Len(pages) :
    LET g == Get(crossref_cache, pages[i].name).val
    IN pages[i].image_path.some =>
         /\ pages[i].source \in {"cpj", "gigaza"}
         /\ pages[i].image_path.val.dir = image_dir
         /\ ~FromCache(pages[i]) => IsImageOfDir(pages[i].image_path.val)
         /\ FromCache(pages[i]) =>
              /\ pages[i].image_path.val.file = g
              /\ g # <<>> => InDir(g)
              /\ (g # <<>> /\ HasImageExtension(g)) =>
                   IsImageOfDir(pages[i].image_path.val)

\* the directory itself returned for an empty cached name
C12_DirectoryReturned ==
  \E i \in 1..Len(pages) :
    /\ FromCache(pages[i])
    /\ pages[i].image_path = SomePath(Join(image_dir, <<>>))
    /\ pages[i].source = "gigaza"

\* a text file of the directory returned for a cached name without image
\* extension
C12_TextFileReturned ==
  \E i \in 1..Len(pages) :
    /\ FromCache(pages[i])
    /\ pages[i].image_path = SomePath(Join(image_dir, FileTxt))
    /\ pages[i].source = "gigaza"

=============================================================================
